---- MODULE Spec2Model ----
(***************************************************************************)
(* Model of src/src/process_words.py: the response parser                  *)
(* (parse_response) and the resumable batch loop of main() with its        *)
(* progress store, per-batch artifacts and aggregator.                     *)
(*                                                                         *)
(* Text is a sequence of one-character strings.  The two boundary markers  *)
(* of the reply format (U+662F "yes", U+5426 "no") are single characters   *)
(* of the source text and are written "shi" and "fou" here.                *)
(***************************************************************************)
EXTENDS Integers, Sequences, FiniteSets, TLC

VARIABLES
    \* configuration and input
    words,              \* load_wordlist(): the word list
    BATCH_SIZE,         \* int(os.getenv("BATCH_SIZE", "20"))
    \* files
    progress_file,      \* progress.json
    result_files,       \* results/batch_<n>.csv, by batch number
    error_files,        \* errors/batch_<n>_errors.json, by batch number
    final_file,         \* final_results.csv
    \* the running process: locals of main()
    pc,                 \* position of the process
    progress,           \* the progress dict
    start_index,
    processed_batches,
    i,                  \* loop variable: start offset of the batch
    batch,              \* words[i:i+BATCH_SIZE]; parse_response's batch
    attempt,            \* attempts made by the retry wrapper of process_batch
    response_text,      \* the reply of the model
    entries,            \* parse_response's result
    error_entries,
    agg_result,
    \* history
    runs,               \* number of runs of main() started so far
    outcome,            \* this run: batch number -> Skipped/Succeeded/Failed
    run_start,          \* this run: the progress file when the run started
    run_batches,        \* this run: <<i, batch>> of each batch submitted
    ever_completed,     \* batch numbers of every progress persisted so far
    max_persisted,      \* largest last_index persisted so far
    last_done,          \* this run: the batch finalized last
    status_of           \* batch number -> Succeeded/Failed, as last persisted

files == <<progress_file, result_files, error_files, final_file>>
locals == <<pc, progress, start_index, processed_batches, i, batch, attempt,
            response_text, entries, error_entries, agg_result>>
history == <<runs, outcome, run_start, run_batches, ever_completed,
             max_persisted, last_done, status_of>>
vars == <<words, BATCH_SIZE, files, locals, history>>

(***************************************************************************)
(* Bounds of the model.                                                    *)
(***************************************************************************)
MaxBatchLen == 3    \* longest batch given to the parser
MaxBlocks == 3      \* most blocks of a reply given to the parser
MaxWords == 3       \* longest word list
MaxBatchSize == 2   \* largest BATCH_SIZE
MaxRuns == 2        \* runs of main(): the first one and the restarts

(***************************************************************************)
(* Characters and text helpers (Python str semantics).                     *)
(***************************************************************************)
NL == "\n"
Whitespace == {" ", NL}
Digits == {"0", "7"}
Categories == {"A", "B", "C"}
BoundaryMarks == {"shi", "fou"}

RECURSIVE LStrip(_)
LStrip(s) ==
    IF s # <<>> /\ Head(s) \in Whitespace THEN LStrip(Tail(s)) ELSE s

RECURSIVE RStrip(_)
RStrip(s) ==
    IF s # <<>> /\ s[Len(s)] \in Whitespace
    THEN RStrip(SubSeq(s, 1, Len(s) - 1))
    ELSE s

\* str.strip()
Strip(s) == RStrip(LStrip(s))

\* s[p:].startswith(sep), p 1-based
StartsWithAt(s, p, sep) ==
    /\ p + Len(sep) - 1 <= Len(s)
    /\ \A k \in 1..Len(sep) : s[p + k - 1] = sep[k]

\* str.split(sep): leftmost, non-overlapping occurrences of sep; always
\* returns at least one piece (the empty text gives one empty piece).
RECURSIVE SplitFrom(_, _, _, _)
SplitFrom(s, p, start, sep) ==
    IF p > Len(s)
    THEN <<SubSeq(s, start, Len(s))>>
    ELSE IF StartsWithAt(s, p, sep)
         THEN <<SubSeq(s, start, p - 1)>>
                  \o SplitFrom(s, p + Len(sep), p + Len(sep), sep)
         ELSE SplitFrom(s, p + 1, start, sep)

Split(s, sep) == SplitFrom(s, 1, 1, sep)

\* sep.join(pieces)
RECURSIVE Join(_, _)
Join(pieces, sep) ==
    IF pieces = <<>> THEN <<>>
    ELSE IF Len(pieces) = 1 THEN pieces[1]
    ELSE pieces[1] \o sep \o Join(Tail(pieces), sep)

\* s[:n]
Take(s, n) == SubSeq(s, 1, IF Len(s) < n THEN Len(s) ELSE n)

(***************************************************************************)
(* valid_pattern = re.compile(r".+\n.+\n.+\n[A-C]\n\d+\n(shi|fou)")        *)
(* used with .match(): anchored at the start of the block, not at its end. *)
(* Each piece returns the position after what it consumed, 0 for no match. *)
(***************************************************************************)
\* the end of the maximal run of characters of class cls starting at p
RECURSIVE RunEnd(_, _, _)
RunEnd(s, p, cls) ==
    IF p <= Len(s) /\ s[p] \in cls THEN RunEnd(s, p + 1, cls) ELSE p

\* a literal character c at p
Lit(s, p, c) == IF p >= 1 /\ p <= Len(s) /\ s[p] = c THEN p + 1 ELSE 0

\* ".+\n" at p: "." matches anything but a newline, so the run is the
\* rest of the line and backtracking cannot find another match
DotPlusNL(s, p) ==
    IF p = 0 THEN 0
    ELSE LET q == RunEnd(s, p, {s[k] : k \in 1..Len(s)} \ {NL})
         IN IF q > p THEN Lit(s, q, NL) ELSE 0

\* "[A-C]\n" at p
CategoryNL(s, p) ==
    IF p >= 1 /\ p <= Len(s) /\ s[p] \in Categories THEN Lit(s, p + 1, NL) ELSE 0

\* "\d+\n" at p: after the maximal digit run the next character is not a
\* digit, so a shorter run cannot be followed by the newline either
DigitsNL(s, p) ==
    IF p = 0 THEN 0
    ELSE LET q == RunEnd(s, p, Digits)
         IN IF q > p THEN Lit(s, q, NL) ELSE 0

\* "(shi|fou)" at p
BoundaryAt(s, p) ==
    IF p >= 1 /\ p <= Len(s) /\ s[p] \in BoundaryMarks THEN p + 1 ELSE 0

ValidPatternMatch(block) ==
    BoundaryAt(block,
        DigitsNL(block,
            CategoryNL(block,
                DotPlusNL(block, DotPlusNL(block, DotPlusNL(block, 1)))))) # 0

(***************************************************************************)
(* parse_response                                                          *)
(***************************************************************************)
FORMAT_ERROR == "parse error: response format not as expected"
LINES_ERROR == "parse error: too few response lines"
MISSING_ERROR == "no result found in the response"
RAW_SNIPPET_LEN == 200
Ellipsis == <<".", ".", ".">>

\* f"UNKNOWN_{idx}"
Unknown(idx) == "UNKNOWN_" \o ToString(idx)

\* batch[idx] if idx < len(batch) else f"UNKNOWN_{idx}"   (idx 0-based)
WordAt(b, idx) == IF idx < Len(b) THEN b[idx + 1] ELSE Unknown(idx)

ErrorEntry(word, msg, raw) ==
    [word |-> word, error |-> msg, raw_response |-> raw]

\* the body of the for loop: one entry for the block at 0-based idx
BlockEntry(b, idx, rawblock) ==
    LET block == Strip(rawblock)
        lines == Split(block, <<NL>>)
    IN IF ~ValidPatternMatch(block)
       THEN ErrorEntry(WordAt(b, idx), FORMAT_ERROR, block)
       ELSE IF Len(lines) < 6
       THEN ErrorEntry(WordAt(b, idx), LINES_ERROR, block)
       ELSE [word |-> WordAt(b, idx),
             reason |-> lines[2],
             near_words |-> lines[3],
             category |-> lines[4],
             confidence |-> lines[5],
             is_boundary |-> lines[6],
             raw_response |-> block]

RawBlocks(text) == Split(Strip(text), <<NL, NL>>)

\* mutant of BlockEntries: the loop stops at the first block that fails
\* validation (the exception leaves the loop instead of being recorded)
BlockEntries_StopAtError(text, b) ==
    LET raw_blocks == RawBlocks(text)
        all == [k \in 1..Len(raw_blocks) |-> BlockEntry(b, k - 1, raw_blocks[k])]
        bad == {k \in 1..Len(all) : "error" \in DOMAIN all[k]}
    IN IF bad = {} THEN all
       ELSE SubSeq(all, 1, CHOOSE k \in bad : \A m \in bad : k <= m)

BlockEntries(text, b) ==
    LET raw_blocks == RawBlocks(text)
    IN [k \in 1..Len(raw_blocks) |-> BlockEntry(b, k - 1, raw_blocks[k])]

\* mutant of MissingEntries: the check for omitted words is left out
MissingEntries_None(text, b, done) == <<>>

\* mutant of MissingEntries: every word of the batch is reported missing
MissingEntries_All(text, b, done) ==
    [k \in 1..Len(b) |->
        ErrorEntry(b[k], MISSING_ERROR, Take(text, RAW_SNIPPET_LEN) \o Ellipsis)]

\* mutant of MissingEntries: the omitted words are reported last to first
MissingEntries_Reversed(text, b, done) ==
    LET processed_words == {done[k].word : k \in 1..Len(done)}
        missing == SelectSeq(b, LAMBDA w : w \notin processed_words)
    IN [k \in 1..Len(missing) |->
           ErrorEntry(missing[Len(missing) + 1 - k], MISSING_ERROR,
                      Take(text, RAW_SNIPPET_LEN) \o Ellipsis)]

\* processed_words is computed once, before the loop over the batch
MissingEntries(text, b, done) ==
    LET processed_words == {done[k].word : k \in 1..Len(done)}
        missing == SelectSeq(b, LAMBDA w : w \notin processed_words)
    IN [k \in 1..Len(missing) |->
           ErrorEntry(missing[k], MISSING_ERROR,
                      Take(text, RAW_SNIPPET_LEN) \o Ellipsis)]

ParseResponse(text, b) ==
    LET done == BlockEntries(text, b)
    IN done \o MissingEntries(text, b, done)

\* "error" in e / "error" not in e
IsError(e) == "error" \in DOMAIN e
IsSuccess(e) == ~IsError(e)

(***************************************************************************)
(* Inputs of the parser: batches over a small vocabulary (one word has the *)
(* shape of a placeholder name) and replies laid out from block templates. *)
(***************************************************************************)
Words == {"a", "b", "UNKNOWN_1"}

\* main() never passes an empty batch
Batches == UNION {[1..n -> Words] : n \in 1..MaxBatchLen}

L == <<"x">>
TextOf(lines) == Join(lines, <<NL>>)

GoodB7 == TextOf(<<L, L, L, <<"B">>, <<"7">>, <<"fou">>>>)
Good7Lines == TextOf(<<L, L, L, <<"A">>, <<"7">>, <<"shi">>, L>>)
FourLines == TextOf(<<L, L, L, <<"B">>>>)
BadCategory == TextOf(<<L, L, L, <<"D">>, <<"7">>, <<"fou">>>>)
ZeroConfidence == TextOf(<<L, L, L, <<"B">>, <<"0">>, <<"fou">>>>)
TrailingBoundary == TextOf(<<L, L, L, <<"C">>, <<"7">>, <<"shi", "x">>>>)

BlockTemplates ==
    {GoodB7, Good7Lines, FourLines, BadCategory, ZeroConfidence, TrailingBoundary}

\* the templates that replies of several blocks are laid out from
CoreTemplates == {GoodB7, FourLines, TrailingBoundary}

\* a reply: its blocks, the separator between them, and padding around it
Layouts ==
    {[sep |-> <<NL, NL>>, pre |-> <<>>, post |-> <<>>],
     [sep |-> <<NL, NL, NL>>, pre |-> <<NL>>, post |-> <<" ", NL>>]}

BlockLists ==
    UNION {[1..k -> BlockTemplates] : k \in 0..1}
        \cup UNION {[1..k -> CoreTemplates] : k \in 2..MaxBlocks}

Replies ==
    {lay.pre \o Join(bs, lay.sep) \o lay.post : bs \in BlockLists, lay \in Layouts}

(***************************************************************************)
(* Configuration, files and the progress store.                            *)
(***************************************************************************)
MAX_RETRIES == 3

\* a file: absent, written whole, or opened for writing ("w" truncates it)
\* and not yet written and closed
Absent == [state |-> "absent"]
Torn == [state |-> "torn"]
Written(data) == [state |-> "ok", data |-> data]

\* the files of a directory, by batch number
NoFiles == <<>>
Put(dir, n, file) == [k \in (DOMAIN dir) \cup {n} |-> IF k = n THEN file ELSE dir[k]]

DEFAULT_PROGRESS == [last_index |-> 0, processed |-> 0, batches |-> <<>>]

\* load_progress(): a missing or undecodable file gives the default
LoadProgress(file) ==
    IF file.state = "ok" THEN file.data ELSE DEFAULT_PROGRESS

\* mutant of StartIndex: a run starts again from the first word
StartIndex_Zero(p) == 0

\* line 254: start_index = progress["last_index"]
StartIndex(p) == p.last_index

SeqToSet(q) == {q[k] : k \in 1..Len(q)}

\* words[a:b], a and b 0-based
Slice(q, a, b) == SubSeq(q, a + 1, IF b < Len(q) THEN b ELSE Len(q))

\* batch_num = (i // BATCH_SIZE) + 1
BatchNum(idx) == (idx \div BATCH_SIZE) + 1

\* the except branch: one entry per word of the batch, str(e) as the error
CALL_ERROR == "RetryError"
FailureEntries(b) == [k \in 1..Len(b) |-> [word |-> b[k], error |-> CALL_ERROR]]

\* mutant of AdvanceFailed: last_index stays before the failed batch
AdvanceFailed_NoAdvance(p, idx, n) ==
    [p EXCEPT !.batches = Append(@, n)]

\* mutant of AdvanceFailed: the failed batch is not marked as completed
AdvanceFailed_NotCompleted(p, idx, n) ==
    [p EXCEPT !.last_index = idx + BATCH_SIZE]

\* lines 307-308: the progress after a failed batch
AdvanceFailed(p, idx, n) ==
    [p EXCEPT !.last_index = idx + BATCH_SIZE,
              !.batches = Append(@, n)]

\* mutant of AdvanceSucceeded: the batch is not marked as completed
AdvanceSucceeded_NotCompleted(p, idx, n, b) ==
    [p EXCEPT !.last_index = idx + BATCH_SIZE,
              !.processed = @ + Len(b)]

\* mutant of AdvanceSucceeded: the words of the batch are not counted
AdvanceSucceeded_NotCounted(p, idx, n, b) ==
    [p EXCEPT !.last_index = idx + BATCH_SIZE,
              !.batches = Append(@, n)]

\* mutant of AdvanceSucceeded: last_index advances by the length of the batch
AdvanceSucceeded_ByBatchLen(p, idx, n, b) ==
    [p EXCEPT !.last_index = idx + Len(b),
              !.processed = @ + Len(b),
              !.batches = Append(@, n)]

\* lines 294-296: the progress after a processed batch
AdvanceSucceeded(p, idx, n, b) ==
    [p EXCEPT !.last_index = idx + BATCH_SIZE,
              !.processed = @ + Len(b),
              !.batches = Append(@, n)]

(***************************************************************************)
(* aggregate_results                                                       *)
(***************************************************************************)
NaN == "<NaN>"

\* DataFrame(entries).to_csv then read_csv(...).to_dict("records"): each
\* row has every column of the file; a missing or empty cell reads as NaN
\* (the word and the error of an entry are never empty; the other cells
\* hold text of the reply)
Columns(es) == UNION {DOMAIN es[k] : k \in 1..Len(es)}
TextColumns ==
    {"reason", "near_words", "category", "confidence", "is_boundary", "raw_response"}
CsvRow(e, cols) ==
    [c \in cols |->
        IF c \notin DOMAIN e THEN NaN
        ELSE IF c \in TextColumns /\ e[c] = <<>> THEN NaN
        ELSE e[c]]
CsvRecords(es) == [k \in 1..Len(es) |-> CsvRow(es[k], Columns(es))]

\* mutant of ConcatFiles: the records of a file replace those read before
ConcatFiles_LastOnly(dir, names) ==
    IF names = {} THEN <<>>
    ELSE LET n == CHOOSE m \in names : \A k \in names : m >= k
         IN CsvRecords(dir[n].data)

RECURSIVE ConcatFiles(_, _)
ConcatFiles(dir, names) ==
    IF names = {} THEN <<>>
    ELSE LET n == CHOOSE m \in names : \A k \in names : m <= k
         IN CsvRecords(dir[n].data) \o ConcatFiles(dir, names \ {n})

\* "error" not in e or pd.isna(e.get("error"))
CountsAsSuccess(e) == "error" \notin DOMAIN e \/ e.error = NaN

NO_RESULT == [filename |-> "", total_words |-> 0, success_words |-> 0, error_words |-> 0]

AggregateOf(all_entries) ==
    LET total == Len(all_entries)
        success == Cardinality({k \in 1..total : CountsAsSuccess(all_entries[k])})
    IN [filename |-> "final_results.csv",
        total_words |-> total,
        success_words |-> success,
        error_words |-> total - success]

(***************************************************************************)
(* main(): one run of the batch loop; a process can be killed at any       *)
(* point and main() started again.                                         *)
(***************************************************************************)
NoBatch == [n |-> 0, i |-> 0, batch |-> <<>>, status |-> "none", persisted |-> FALSE]

NoProcess ==
    /\ progress = DEFAULT_PROGRESS
    /\ start_index = 0
    /\ processed_batches = {}
    /\ i = 0
    /\ attempt = 0
    /\ error_entries = <<>>
    /\ agg_result = NO_RESULT

FreshDisk ==
    /\ progress_file = Absent
    /\ result_files = NoFiles
    /\ error_files = NoFiles
    /\ final_file = Absent

FreshHistory ==
    /\ runs = 0
    /\ outcome = <<>>
    /\ run_start = Absent
    /\ run_batches = <<>>
    /\ ever_completed = {}
    /\ max_persisted = 0
    /\ last_done = NoBatch
    /\ status_of = <<>>

\* the word list of n words
WordList(n) == [k \in 1..n |-> IF k % 2 = 1 THEN "a" ELSE "b"]

\* replies of the model in the batch loop: a valid block, a block of 4 lines
PipelineReplies == {GoodB7, FourLines}

Init ==
    /\ words \in {WordList(n) : n \in 0..MaxWords}
    /\ BATCH_SIZE \in 1..MaxBatchSize
    /\ FreshDisk
    /\ FreshHistory
    /\ pc = "idle"
    /\ batch = <<>>
    /\ response_text = <<>>
    /\ entries = <<>>
    /\ NoProcess

Running == pc \notin {"idle", "done", "aborted", "ready", "parsed"}

\* lines 248-257: a run starts and loads the progress
Start ==
    /\ pc \in {"idle", "done", "aborted"}
    /\ runs < MaxRuns
    /\ runs' = runs + 1
    /\ progress' = LoadProgress(progress_file)
    /\ start_index' = StartIndex(progress')
    /\ processed_batches' = SeqToSet(progress'.batches)
    /\ i' = start_index'
    /\ pc' = "loop"
    /\ batch' = <<>>
    /\ response_text' = <<>>
    /\ entries' = <<>>
    /\ error_entries' = <<>>
    /\ attempt' = 0
    /\ agg_result' = NO_RESULT
    /\ outcome' = <<>>
    /\ run_start' = progress_file
    /\ run_batches' = <<>>
    /\ last_done' = NoBatch
    /\ UNCHANGED <<words, BATCH_SIZE, files, ever_completed, max_persisted,
                   status_of>>

\* lines 260-269: the head of the for loop
LoopHead ==
    /\ pc = "loop"
    /\ IF i >= Len(words)
       THEN /\ pc' = "after_loop"
            /\ UNCHANGED <<i, batch, attempt, outcome>>
       ELSE IF BatchNum(i) \in processed_batches
       THEN /\ i' = i + BATCH_SIZE
            /\ outcome' = Put(outcome, BatchNum(i), "Skipped")
            /\ UNCHANGED <<pc, batch, attempt>>
       ELSE /\ batch' = Slice(words, i, i + BATCH_SIZE)
            /\ attempt' = 0
            /\ pc' = "call"
            /\ UNCHANGED <<i, outcome>>
    /\ UNCHANGED <<words, BATCH_SIZE, files, progress, start_index,
                   processed_batches, response_text, entries, error_entries,
                   agg_result, runs, run_start, run_batches, ever_completed,
                   max_persisted, last_done, status_of>>

Submitted == IF attempt = 0 THEN Append(run_batches, <<i, batch>>) ELSE run_batches

\* lines 132-147: an attempt of process_batch returns the reply
CallReturns ==
    /\ pc = "call"
    /\ \E r \in PipelineReplies : response_text' = r
    /\ attempt' = attempt + 1
    /\ run_batches' = Submitted
    /\ pc' = "parse"
    /\ UNCHANGED <<words, BATCH_SIZE, files, progress, start_index,
                   processed_batches, i, batch, entries, error_entries,
                   agg_result, runs, outcome, run_start, ever_completed,
                   max_persisted, last_done, status_of>>

\* mutant of RetriesExhausted: the retries never stop
RetriesExhausted_Never(made) == FALSE

\* mutant of RetriesExhausted: one attempt more than MAX_RETRIES
RetriesExhausted_OneMore(made) == made > MAX_RETRIES

\* line 132, stop_after_attempt(MAX_RETRIES): no retry after that many attempts
RetriesExhausted(made) == made >= MAX_RETRIES

\* lines 132, 148-149: an attempt raises; stop_after_attempt(MAX_RETRIES)
\* ends the retries and the error reaches main()
CallRaises ==
    /\ pc = "call"
    /\ attempt' = attempt + 1
    /\ run_batches' = Submitted
    /\ pc' = IF RetriesExhausted(attempt + 1) THEN "failed" ELSE "call"
    /\ UNCHANGED <<words, BATCH_SIZE, files, progress, start_index,
                   processed_batches, i, batch, response_text, entries,
                   error_entries, agg_result, runs, outcome, run_start,
                   ever_completed, max_persisted, last_done, status_of>>

\* line 276
ParseReply ==
    /\ pc = "parse"
    /\ entries' = ParseResponse(response_text, batch)
    /\ pc' = "save_results"
    /\ UNCHANGED <<words, BATCH_SIZE, files, progress, start_index,
                   processed_batches, i, batch, attempt, response_text,
                   error_entries, agg_result, history>>

\* line 283, save_results: the file is opened
SaveResultsOpen ==
    /\ pc = "save_results"
    /\ result_files' = Put(result_files, BatchNum(i), Torn)
    /\ pc' = "write_results"
    /\ UNCHANGED <<words, BATCH_SIZE, progress_file, error_files, final_file,
                   progress, start_index, processed_batches, i, batch, attempt,
                   response_text, entries, error_entries, agg_result, history>>

\* lines 283-289, save_results: the rows are written
SaveResultsWrite ==
    /\ pc = "write_results"
    /\ result_files' = Put(result_files, BatchNum(i), Written(entries))
    /\ IF \E k \in 1..Len(entries) : IsError(entries[k])
       THEN /\ error_entries' = SelectSeq(entries, IsError)
            /\ pc' = "save_errors"
       ELSE /\ error_entries' = error_entries
            /\ pc' = "update_progress"
    /\ UNCHANGED <<words, BATCH_SIZE, progress_file, error_files, final_file,
                   progress, start_index, processed_batches, i, batch, attempt,
                   response_text, entries, agg_result, history>>

\* line 290, save_errors: the file is opened
SaveErrorsOpen ==
    /\ pc = "save_errors"
    /\ error_files' = Put(error_files, BatchNum(i), Torn)
    /\ pc' = "write_errors"
    /\ UNCHANGED <<words, BATCH_SIZE, progress_file, result_files, final_file,
                   progress, start_index, processed_batches, i, batch, attempt,
                   response_text, entries, error_entries, agg_result, history>>

\* line 290, save_errors: the entries are written
SaveErrorsWrite ==
    /\ pc = "write_errors"
    /\ error_files' = Put(error_files, BatchNum(i), Written(error_entries))
    /\ pc' = "update_progress"
    /\ UNCHANGED <<words, BATCH_SIZE, progress_file, result_files, final_file,
                   progress, start_index, processed_batches, i, batch, attempt,
                   response_text, entries, error_entries, agg_result, history>>

\* lines 294-296
UpdateProgress ==
    /\ pc = "update_progress"
    /\ progress' = AdvanceSucceeded(progress, i, BatchNum(i), batch)
    /\ last_done' = [n |-> BatchNum(i), i |-> i, batch |-> batch,
                     status |-> "Succeeded", persisted |-> FALSE]
    /\ pc' = "save_progress"
    /\ UNCHANGED <<words, BATCH_SIZE, files, start_index, processed_batches, i,
                   batch, attempt, response_text, entries, error_entries,
                   agg_result, runs, outcome, run_start, run_batches,
                   ever_completed, max_persisted, status_of>>

\* lines 299-302: the except branch builds the error entries
FailBatch ==
    /\ pc = "failed"
    /\ error_entries' = FailureEntries(batch)
    /\ pc' = "x_save_errors"
    /\ UNCHANGED <<words, BATCH_SIZE, files, progress, start_index,
                   processed_batches, i, batch, attempt, response_text,
                   entries, agg_result, history>>

\* line 303, save_errors: the file is opened
FailSaveErrorsOpen ==
    /\ pc = "x_save_errors"
    /\ error_files' = Put(error_files, BatchNum(i), Torn)
    /\ pc' = "x_write_errors"
    /\ UNCHANGED <<words, BATCH_SIZE, progress_file, result_files, final_file,
                   progress, start_index, processed_batches, i, batch, attempt,
                   response_text, entries, error_entries, agg_result, history>>

\* line 303, save_errors: the entries are written
FailSaveErrorsWrite ==
    /\ pc = "x_write_errors"
    /\ error_files' = Put(error_files, BatchNum(i), Written(error_entries))
    /\ pc' = "x_update_progress"
    /\ UNCHANGED <<words, BATCH_SIZE, progress_file, result_files, final_file,
                   progress, start_index, processed_batches, i, batch, attempt,
                   response_text, entries, error_entries, agg_result, history>>

\* lines 307-308
FailUpdateProgress ==
    /\ pc = "x_update_progress"
    /\ progress' = AdvanceFailed(progress, i, BatchNum(i))
    /\ last_done' = [n |-> BatchNum(i), i |-> i, batch |-> batch,
                     status |-> "Failed", persisted |-> FALSE]
    /\ pc' = "save_progress"
    /\ UNCHANGED <<words, BATCH_SIZE, files, start_index, processed_batches, i,
                   batch, attempt, response_text, entries, error_entries,
                   agg_result, runs, outcome, run_start, run_batches,
                   ever_completed, max_persisted, status_of>>

\* lines 297 and 309, save_progress: open(PROGRESS_FILE, "w") truncates
SaveProgressOpen ==
    /\ pc = "save_progress"
    /\ progress_file' = Torn
    /\ pc' = "write_progress"
    /\ UNCHANGED <<words, BATCH_SIZE, result_files, error_files, final_file,
                   progress, start_index, processed_batches, i, batch, attempt,
                   response_text, entries, error_entries, agg_result, history>>

Max(a, b) == IF a >= b THEN a ELSE b

\* lines 297 and 309, save_progress: json.dump and close; then the pacing
\* sleep of line 312 and the next iteration
SaveProgressWrite ==
    /\ pc = "write_progress"
    /\ progress_file' = Written(progress)
    /\ i' = i + BATCH_SIZE
    /\ pc' = "loop"
    /\ outcome' = Put(outcome, last_done.n, last_done.status)
    /\ last_done' = [last_done EXCEPT !.persisted = TRUE]
    /\ ever_completed' = ever_completed \cup SeqToSet(progress.batches)
    /\ max_persisted' = Max(max_persisted, progress.last_index)
    /\ status_of' = Put(status_of, last_done.n, last_done.status)
    /\ UNCHANGED <<words, BATCH_SIZE, result_files, error_files, final_file,
                   progress, start_index, processed_batches, batch, attempt,
                   response_text, entries, error_entries, agg_result, runs,
                   run_start, run_batches>>

\* lines 315-326: after the loop; read_csv raises on a file without
\* content, which ends main() with the error
Finish ==
    /\ pc = "after_loop"
    /\ IF progress.last_index >= Len(words)
       THEN IF \E n \in DOMAIN result_files : result_files[n].state = "torn"
            THEN /\ pc' = "aborted"
                 /\ UNCHANGED <<final_file, agg_result>>
            ELSE LET all_entries == ConcatFiles(result_files, DOMAIN result_files)
                 IN /\ final_file' = Written(all_entries)
                    /\ agg_result' = AggregateOf(all_entries)
                    /\ pc' = "done"
       ELSE /\ pc' = "done"
            /\ UNCHANGED <<final_file, agg_result>>
    /\ UNCHANGED <<words, BATCH_SIZE, progress_file, result_files, error_files,
                   progress, start_index, processed_batches, i, batch, attempt,
                   response_text, entries, error_entries, history>>

\* the process is killed: its memory is lost, the files stay as they are
Crash ==
    /\ Running
    /\ pc' = "idle"
    /\ progress' = DEFAULT_PROGRESS
    /\ start_index' = 0
    /\ processed_batches' = {}
    /\ i' = 0
    /\ batch' = <<>>
    /\ attempt' = 0
    /\ response_text' = <<>>
    /\ entries' = <<>>
    /\ error_entries' = <<>>
    /\ agg_result' = NO_RESULT
    /\ UNCHANGED <<words, BATCH_SIZE, files, history>>

Next ==
    \/ Start
    \/ LoopHead
    \/ CallReturns
    \/ CallRaises
    \/ ParseReply
    \/ SaveResultsOpen
    \/ SaveResultsWrite
    \/ SaveErrorsOpen
    \/ SaveErrorsWrite
    \/ UpdateProgress
    \/ FailBatch
    \/ FailSaveErrorsOpen
    \/ FailSaveErrorsWrite
    \/ FailUpdateProgress
    \/ SaveProgressOpen
    \/ SaveProgressWrite
    \/ Finish
    \/ Crash

Spec == Init /\ [][Next]_vars

(***************************************************************************)
(* Specification of the parser alone: one call of parse_response on any    *)
(* batch and any reply.                                                    *)
(***************************************************************************)
ParseInit ==
    /\ batch \in Batches
    /\ response_text \in Replies
    /\ entries = <<>>
    /\ pc = "ready"
    /\ NoProcess
    /\ words = batch
    /\ BATCH_SIZE = Len(batch)
    /\ FreshDisk
    /\ FreshHistory

Parse ==
    /\ pc = "ready"
    /\ entries' = ParseResponse(response_text, batch)
    /\ pc' = "parsed"
    /\ UNCHANGED <<words, BATCH_SIZE, files, history, batch, response_text,
                   progress, start_index, processed_batches, i, attempt,
                   error_entries, agg_result>>

ParseNext == Parse

ParseSpec == ParseInit /\ [][ParseNext]_vars

(***************************************************************************)
(* Properties of parse_response (checked under ParseSpec).                 *)
(***************************************************************************)
Parsed == pc = "parsed"
BatchWords == {batch[k] : k \in 1..Len(batch)}
EntryWords == {entries[k].word : k \in 1..Len(entries)}
NBlocks == Len(RawBlocks(response_text))
Distinct(b) == \A j, k \in 1..Len(b) : j # k => b[j] # b[k]
PlaceholderNames == {Unknown(idx) : idx \in 0..(MaxBlocks + 1)}

\* C1: for every batch (duplicates inside the batch allowed) and every
\* reply, parse_response returns at least |batch| records.
C1_AtLeastOneRecordPerWord == Parsed => Len(entries) >= Len(batch)

\* C2 as stated: the set of words carried by the returned records equals
\* exactly the set of words of the batch, whatever the number of blocks.
C2_WordSetEqualsBatch == Parsed => EntryWords = BatchWords

\* C2 amended: every word of the batch is carried by some record; a record
\* carries a word of the batch unless it is the record of a block at a
\* position idx >= |batch|, which carries the placeholder UNKNOWN_idx; so
\* the two sets are equal when the reply has at most |batch| blocks.
C2_WordsCoveredUpToPlaceholders ==
    Parsed =>
        /\ BatchWords \subseteq EntryWords
        /\ \A k \in 1..Len(entries) :
              \/ entries[k].word \in BatchWords
              \/ /\ k > Len(batch)
                 /\ k <= NBlocks
                 /\ entries[k].word = Unknown(k - 1)
        /\ (NBlocks <= Len(batch) => EntryWords = BatchWords)

\* C2 witness: a reply with more blocks than the batch has words has been
\* parsed and a record carries a word that is not in the batch.
C2_Witness ==
    /\ Parsed
    /\ Len(batch) >= 1
    /\ NBlocks > Len(batch)
    /\ EntryWords # BatchWords

HasSuccess(w) == \E k \in 1..Len(entries) : entries[k].word = w /\ IsSuccess(entries[k])
HasError(w) == \E k \in 1..Len(entries) : entries[k].word = w /\ IsError(entries[k])

\* C3 as stated: for every batch and every reply, no word has both a
\* success record and an error record in the output.
C3_NeverBoth == Parsed => \A w \in EntryWords : ~(HasSuccess(w) /\ HasError(w))

\* C3 amended: for a batch of pairwise-distinct words none of which is a
\* placeholder name UNKNOWN_i, no word has both a success record and an
\* error record in the output.
C3_NeverBothDistinctBatch ==
    (Parsed /\ Distinct(batch) /\ BatchWords \cap PlaceholderNames = {}) =>
        \A w \in EntryWords : ~(HasSuccess(w) /\ HasError(w))

\* C3 witness: a batch of two distinct words was parsed into a success
\* record for one and an error record for the other.
C3_Witness ==
    /\ Parsed
    /\ batch = <<"a", "b">>
    /\ HasSuccess("a") /\ ~HasError("a")
    /\ HasError("b") /\ ~HasSuccess("b")

\* C4: for n pairwise-distinct words and a reply of k <= n blocks the
\* output has exactly n records, record j for batch[j]: the first k are
\* the records of the blocks and the other n-k are missing-from-response
\* errors for batch[k..n-1] in batch order.
C4_ExactlyOnePerWord ==
    (Parsed /\ Distinct(batch) /\ NBlocks <= Len(batch)) =>
        /\ Len(entries) = Len(batch)
        /\ \A j \in 1..Len(entries) : entries[j].word = batch[j]
        /\ \A j \in 1..Len(entries) :
              IF j <= NBlocks
              THEN entries[j] = BlockEntry(batch, j - 1, RawBlocks(response_text)[j])
              ELSE /\ IsError(entries[j])
                   /\ entries[j].error = MISSING_ERROR

\* C4 witness: three distinct words, two valid blocks: three records, the
\* third a missing-from-response error.
C4_Witness ==
    /\ Parsed
    /\ Len(batch) = 3 /\ Distinct(batch)
    /\ NBlocks = 2
    /\ Len(entries) = 3
    /\ IsSuccess(entries[1]) /\ IsSuccess(entries[2])
    /\ IsError(entries[3]) /\ entries[3].error = MISSING_ERROR
    /\ entries[3].word = batch[3]

\* the acceptance rule as the specification words it: at least 6 non-empty
\* lines, line 4 exactly A, B or C, line 5 a positive integer, line 6
\* exactly one of the two boundary markers
IsPositiveInteger(line) ==
    /\ line # <<>>
    /\ \A k \in 1..Len(line) : line[k] \in Digits
    /\ \E k \in 1..Len(line) : line[k] # "0"

StatedRuleAccepts(block) ==
    LET lines == Split(block, <<NL>>)
    IN /\ Len(lines) >= 6
       /\ \A k \in 1..6 : lines[k] # <<>>
       /\ lines[4] \in {<<c>> : c \in Categories}
       /\ IsPositiveInteger(lines[5])
       /\ lines[6] \in {<<m>> : m \in BoundaryMarks}

\* C5: a block yields a success record if and only if it has at least 6
\* non-empty lines with line 4 exactly one of A/B/C, line 5 a positive
\* integer and line 6 exactly one of the two boundary markers; every
\* other block yields an error record.
C5_SuccessIffStatedRule ==
    Parsed =>
        \A k \in 1..NBlocks :
            IsSuccess(entries[k]) <=> StatedRuleAccepts(Strip(RawBlocks(response_text)[k]))

\* the reply with the block at (1-based) position i replaced by a well
\* formed block
WithBlock(text, pos, block) ==
    LET raw_blocks == RawBlocks(text)
    IN Join([k \in 1..Len(raw_blocks) |-> IF k = pos THEN block ELSE raw_blocks[k]],
            <<NL, NL>>)

\* C6: parse_response returns for every batch and every reply; a block at
\* position i that fails validation yields an error record with the
\* format error for position i, and the records of every other block
\* position (and the words and errors of the missing-from-response
\* records) are what they are when block i is well formed.
C6_MalformedBlockIsolated ==
    Parsed =>
        /\ Len(entries) >= NBlocks
        /\ \A pos \in 1..NBlocks :
              ~ValidPatternMatch(Strip(RawBlocks(response_text)[pos])) =>
                  /\ IsError(entries[pos])
                  /\ entries[pos].error = FORMAT_ERROR
                  /\ entries[pos].word = WordAt(batch, pos - 1)
                  /\ LET alt == ParseResponse(WithBlock(response_text, pos, GoodB7), batch)
                     IN /\ Len(alt) = Len(entries)
                        /\ IsSuccess(alt[pos])
                        /\ \A j \in 1..NBlocks : j # pos => alt[j] = entries[j]
                        /\ \A j \in (NBlocks + 1)..Len(entries) :
                              /\ alt[j].word = entries[j].word
                              /\ alt[j].error = entries[j].error

\* C6 witness: a reply whose second block has only 4 lines was parsed for
\* three words: a format error for the second word between two successes.
C6_Witness ==
    /\ Parsed
    /\ Len(batch) = 3
    /\ NBlocks = 3
    /\ Strip(RawBlocks(response_text)[2]) = FourLines
    /\ IsSuccess(entries[1])
    /\ IsError(entries[2]) /\ entries[2].error = FORMAT_ERROR
    /\ entries[2].word = batch[2]
    /\ IsSuccess(entries[3]) /\ entries[3].word = batch[3]

(***************************************************************************)
(* Properties of the batch loop (checked under Spec).                      *)
(***************************************************************************)
InFlight ==
    pc \in {"call", "parse", "save_results", "write_results", "save_errors",
            "write_errors", "update_progress", "failed", "x_save_errors",
            "x_write_errors", "x_update_progress", "save_progress",
            "write_progress"}

NoDuplicates(q) == \A j, k \in 1..Len(q) : j # k => q[j] # q[k]

\* the batch finalized last has just been persisted and the loop is about
\* to go on
JustFinalized(status) ==
    /\ pc = "loop"
    /\ last_done.status = status
    /\ last_done.persisted

\* C7: when the call fails on every one of its MAX_RETRIES attempts the
\* batch is Failed: its error artifact holds exactly one error record per
\* word of the batch, last_index is the batch's start offset plus
\* BATCH_SIZE, the batch number is appended to the completed batches, the
\* progress is persisted, and the run goes on with the next offset.
C7_FailedBatchFinalized ==
    /\ pc \in {"failed", "x_save_errors", "x_write_errors", "x_update_progress"}
          => attempt = MAX_RETRIES
    /\ JustFinalized("Failed") =>
          /\ attempt = MAX_RETRIES
          /\ outcome[last_done.n] = "Failed"
          /\ last_done.n \in DOMAIN error_files
          /\ error_files[last_done.n].state = "ok"
          /\ LET written == error_files[last_done.n].data
             IN /\ Len(written) = Len(last_done.batch)
                /\ \A k \in 1..Len(written) :
                      /\ written[k].word = last_done.batch[k]
                      /\ IsError(written[k])
          /\ progress.last_index = last_done.i + BATCH_SIZE
          /\ progress.batches # <<>>
          /\ progress.batches[Len(progress.batches)] = last_done.n
          /\ progress_file = Written(progress)
          /\ i = last_done.i + BATCH_SIZE

\* C7 witness: a batch of two words has failed and been finalized, and
\* another batch follows it.
C7_Witness ==
    /\ JustFinalized("Failed")
    /\ Len(last_done.batch) = 2
    /\ i < Len(words)

\* C8: a batch whose number is in a persisted progress is never submitted
\* or written again, whatever the runs and crashes, and the completed
\* batches never hold a batch number twice.
C8_AtMostOncePerBatch ==
    /\ InFlight => BatchNum(i) \notin ever_completed
    /\ NoDuplicates(progress.batches)
    /\ progress_file.state = "ok" => NoDuplicates(progress_file.data.batches)

\* C9: the progress a run works from never has a smaller last_index nor
\* fewer completed batches than a progress persisted earlier, whatever the
\* crashes (also a crash while the progress is being persisted).
C9_LoadedProgressNeverRegresses ==
    Running =>
        /\ progress.last_index >= max_persisted
        /\ ever_completed \subseteq SeqToSet(progress.batches)

\* C10: a run that starts with a persisted last_index = k below the word
\* count starts its loop at k, the first batch it submits is
\* words[k .. k+BATCH_SIZE-1], the batch at k is not skipped, and no
\* batch it submits starts below k.
C10_ResumeStartsAtLastIndex ==
    (pc \notin {"idle", "ready", "parsed"}
        /\ run_start.state = "ok"
        /\ run_start.data.last_index < Len(words)) =>
        LET k == run_start.data.last_index
        IN /\ start_index = k
           /\ i >= k
           /\ (pc = "loop" /\ run_batches = <<>>) => i = k
           /\ BatchNum(k) \in DOMAIN outcome => outcome[BatchNum(k)] # "Skipped"
           /\ \A j \in 1..Len(run_batches) : run_batches[j][1] >= k
           /\ run_batches # <<>> =>
                 run_batches[1] = <<k, Slice(words, k, k + BATCH_SIZE)>>

\* C10 witness: a run resumed from a persisted last_index above 0 has
\* submitted its first batch.
C10_Witness ==
    /\ Running
    /\ run_start.state = "ok"
    /\ run_start.data.last_index > 0
    /\ run_start.data.last_index < Len(words)
    /\ run_batches # <<>>
    /\ run_batches[1][1] = run_start.data.last_index

\* the progress p holds the batch numbers 1, 2, ... in order, and its
\* last_index is the offset after the last of them
Aligned(p) ==
    /\ p.last_index % BATCH_SIZE = 0
    /\ p.last_index = Len(p.batches) * BATCH_SIZE
    /\ \A k \in 1..Len(p.batches) : p.batches[k] = k

\* C11: from a fresh start with a fixed BATCH_SIZE, through any mix of
\* Succeeded and Failed batches and resumes, the persisted last_index is a
\* multiple of BATCH_SIZE, every batch starts at a multiple of BATCH_SIZE,
\* and the number of every processed batch is its start offset divided by
\* BATCH_SIZE, plus 1 (so the completed batches are 1, 2, ... in order).
C11_OffsetsAlignedToBatchSize ==
    /\ progress_file.state = "ok" => Aligned(progress_file.data)
    /\ Aligned(progress)
    /\ i % BATCH_SIZE = 0
    /\ \A k \in 1..Len(run_batches) : run_batches[k][1] % BATCH_SIZE = 0
    /\ last_done.status # "none" =>
          /\ last_done.i % BATCH_SIZE = 0
          /\ (last_done.n - 1) * BATCH_SIZE = last_done.i
          /\ Running => last_done.n \in SeqToSet(progress.batches)
    /\ \A n \in (DOMAIN result_files) \cup (DOMAIN error_files) :
          /\ n >= 1
          /\ (n - 1) * BATCH_SIZE < Len(words)

\* C11 witness: a resumed run has persisted the second batch of two words
\* short of a full batch, after a Failed batch.
C11_Witness ==
    /\ JustFinalized("Succeeded")
    /\ runs = 2
    /\ run_start.state = "ok"
    /\ BATCH_SIZE = 2
    /\ last_done.n = 2
    /\ Len(last_done.batch) = 1
    /\ progress_file.state = "ok"
    /\ progress_file.data.last_index = 4
    /\ progress_file.data.batches = <<1, 2>>

\* the number of words of batch n of the word list
BatchLen(n) == Len(Slice(words, (n - 1) * BATCH_SIZE, n * BATCH_SIZE))

RECURSIVE SumLen(_)
SumLen(ns) ==
    IF ns = {} THEN 0
    ELSE LET n == CHOOSE m \in ns : TRUE
         IN BatchLen(n) + SumLen(ns \ {n})

\* the progress in memory is the persisted one (no batch is between its
\* progress update and the end of save_progress)
AtRest == Running /\ pc \notin {"save_progress", "write_progress"}

\* C12 as stated: processed always equals the sum of the word counts of
\* every batch in the completed batches, whether Succeeded or Failed.
C12_ProcessedCountsEveryCompletedBatch ==
    /\ progress_file.state = "ok" =>
          progress_file.data.processed = SumLen(SeqToSet(progress_file.data.batches))
    /\ AtRest => progress.processed = SumLen(SeqToSet(progress.batches))

SucceededIn(p) == {n \in SeqToSet(p.batches) : status_of[n] = "Succeeded"}

\* C12 amended: processed equals the sum of the word counts of the
\* completed batches that Succeeded; a Failed batch is completed but adds
\* nothing to processed.
C12_ProcessedCountsSucceededBatches ==
    /\ progress_file.state = "ok" =>
          /\ SeqToSet(progress_file.data.batches) \subseteq DOMAIN status_of
          /\ progress_file.data.processed = SumLen(SucceededIn(progress_file.data))
    /\ AtRest =>
          /\ SeqToSet(progress.batches) \subseteq DOMAIN status_of
          /\ progress.processed = SumLen(SucceededIn(progress))

\* C12 witness: the persisted progress holds a Failed batch of two words
\* and a Succeeded batch of one word, and processed is 1.
C12_Witness ==
    /\ progress_file.state = "ok"
    /\ progress_file.data.batches = <<1, 2>>
    /\ status_of[1] = "Failed" /\ BatchLen(1) = 2
    /\ status_of[2] = "Succeeded" /\ BatchLen(2) = 1
    /\ progress_file.data.processed = 1

\* aggregate_results has run to its end in this run
Aggregated == pc = "done" /\ agg_result # NO_RESULT

\* the final aggregate has a row for the word and the error of the record
ErrorInFinal(rec) ==
    \E k \in 1..Len(final_file.data) :
        LET row == final_file.data[k]
        IN /\ row.word = rec.word
           /\ "error" \in DOMAIN row
           /\ row.error = rec.error

\* C13: after a run in which all batches were attempted, the final
\* aggregate holds every record of every batch attempted in the run: the
\* error records of a Failed batch as well as the records of a Succeeded
\* batch, so the final counts cover every input word.
C13_AggregateHoldsEveryRecord ==
    Aggregated =>
        /\ final_file.state = "ok"
        /\ \A n \in DOMAIN outcome :
              outcome[n] = "Failed" =>
                  \A k \in 1..Len(error_files[n].data) :
                      ErrorInFinal(error_files[n].data[k])
        /\ \A n \in DOMAIN outcome :
              outcome[n] = "Succeeded" =>
                  Len(final_file.data) >= Len(result_files[n].data)
        /\ agg_result.total_words >= SumLen(DOMAIN outcome)

RECURSIVE SumRecords(_, _)
SumRecords(dir, names) ==
    IF names = {} THEN 0
    ELSE LET n == CHOOSE m \in names : TRUE
         IN Len(dir[n].data) + SumRecords(dir, names \ {n})

RECURSIVE SumErrors(_, _)
SumErrors(dir, names) ==
    IF names = {} THEN 0
    ELSE LET n == CHOOSE m \in names : TRUE
         IN Len(SelectSeq(dir[n].data, IsError)) + SumErrors(dir, names \ {n})

\* C14: whenever aggregate_results has run, total_words is the sum of the
\* record counts of the per-batch result artifacts written at that time
\* (which is the number of rows of the final aggregate), error_words is
\* the number of error records among them, and success_words +
\* error_words = total_words.
C14_AggregatorRoundTrip ==
    Aggregated =>
        /\ \A n \in DOMAIN result_files : result_files[n].state = "ok"
        /\ agg_result.total_words = SumRecords(result_files, DOMAIN result_files)
        /\ final_file.state = "ok"
        /\ Len(final_file.data) = agg_result.total_words
        /\ agg_result.error_words = SumErrors(result_files, DOMAIN result_files)
        /\ agg_result.success_words >= 0
        /\ agg_result.success_words + agg_result.error_words = agg_result.total_words

\* C14 witness: the aggregator has run over two result artifacts that
\* hold three records, success and error records among them.
C14_Witness ==
    /\ Aggregated
    /\ DOMAIN result_files = {1, 2}
    /\ agg_result.total_words = 3
    /\ agg_result.success_words >= 1
    /\ agg_result.error_words >= 1

\* ceil(total_words / BATCH_SIZE)
NumBatches == (Len(words) + BATCH_SIZE - 1) \div BATCH_SIZE

\* aggregate_results has been called in this run (it returned or raised)
AggregatorCalled == Aggregated \/ pc = "aborted"

\* C15: the aggregator is called in a run only if last_index >= the
\* number of words at the end of the batch loop, and whenever it is called
\* every batch number in 1..ceil(total_words / BATCH_SIZE) is in the
\* completed batches (in memory and in the persisted progress).
C15_AggregatorOnlyAfterAllBatches ==
    AggregatorCalled =>
        /\ progress.last_index >= Len(words)
        /\ i >= Len(words)
        /\ \A n \in 1..NumBatches : n \in SeqToSet(progress.batches)
        /\ NumBatches > 0 => progress_file = Written(progress)

\* C15 witness: the aggregator has run in a resumed run over a word list
\* of two batches, one of which Failed.
C15_Witness ==
    /\ Aggregated
    /\ runs = 2
    /\ NumBatches = 2
    /\ SeqToSet(progress.batches) = {1, 2}
    /\ status_of[1] = "Failed"
    /\ status_of[2] = "Succeeded"

\* the batch has been finalized as Succeeded and its progress is about to
\* be persisted (the persisted progress is still the one before the batch)
SucceededUnsaved ==
    /\ pc = "save_progress"
    /\ last_done.status = "Succeeded"

\* the process is between the return of the call and the progress update
OnSuccessPath ==
    pc \in {"parse", "save_results", "write_results", "save_errors",
            "write_errors", "update_progress"}

\* C16: a batch whose call returned and whose reply was parsed is
\* Succeeded however many of its records are errors: all its records are
\* in its result artifact, last_index is its start offset + BATCH_SIZE,
\* processed has grown by the number of words of the batch, its number is
\* the last of the completed batches and the progress is persisted; it
\* never takes the path of a Failed batch.
C16_ParsedBatchSucceeds ==
    /\ SucceededUnsaved =>
          /\ progress.processed =
                LoadProgress(progress_file).processed + Len(batch)
          /\ progress.last_index = i + BATCH_SIZE
          /\ progress.batches =
                Append(LoadProgress(progress_file).batches, BatchNum(i))
    /\ (OnSuccessPath \/ SucceededUnsaved) =>
          /\ attempt \in 1..MAX_RETRIES
          /\ last_done.status = "Failed" => last_done.n # BatchNum(i)
    /\ JustFinalized("Succeeded") =>
          /\ entries = ParseResponse(response_text, last_done.batch)
          /\ result_files[last_done.n] = Written(entries)
          /\ (\E k \in 1..Len(entries) : IsError(entries[k])) =>
                error_files[last_done.n] = Written(SelectSeq(entries, IsError))
          /\ outcome[last_done.n] = "Succeeded"
          /\ progress.last_index = last_done.i + BATCH_SIZE
          /\ progress.batches # <<>>
          /\ progress.batches[Len(progress.batches)] = last_done.n
          /\ progress_file = Written(progress)
          /\ i = last_done.i + BATCH_SIZE

\* C16 witness: a batch of two words whose records are all errors has
\* been finalized as Succeeded, after a first attempt that raised.
C16_Witness ==
    /\ JustFinalized("Succeeded")
    /\ Len(last_done.batch) = 2
    /\ Len(entries) = 2
    /\ \A k \in 1..Len(entries) : IsError(entries[k])
    /\ attempt = 2
    /\ progress.processed = 2

OnFailurePath ==
    pc \in {"failed", "x_save_errors", "x_write_errors", "x_update_progress"}

\* C17: for every batch that is processed the client is called at least
\* once and at most MAX_RETRIES times: a further call is pending only
\* after fewer than MAX_RETRIES attempts (so the count of the batch before
\* does not carry over), a batch whose call returned has made between 1
\* and MAX_RETRIES attempts, and a batch is Failed only after exactly
\* MAX_RETRIES attempts.
C17_RetryBudgetPerBatch ==
    /\ attempt \in 0..MAX_RETRIES
    /\ pc = "call" => attempt < MAX_RETRIES
    /\ (pc = "call" /\ attempt = 0) =>
          (run_batches = <<>> \/ run_batches[Len(run_batches)][1] < i)
    /\ (InFlight /\ attempt > 0) =>
          /\ run_batches # <<>>
          /\ run_batches[Len(run_batches)] = <<i, batch>>
    /\ OnSuccessPath => attempt \in 1..MAX_RETRIES
    /\ OnFailurePath => attempt = MAX_RETRIES
    /\ (pc \in {"save_progress", "write_progress"} \/ JustFinalized(last_done.status)) =>
          /\ last_done.status = "Failed" => attempt = MAX_RETRIES
          /\ last_done.status = "Succeeded" => attempt \in 1..MAX_RETRIES
    /\ NoDuplicates(run_batches)

\* C17 witness: after a batch that Failed on its MAX_RETRIES attempts, the
\* next batch has had two failed attempts and its third call is pending.
C17_Witness ==
    /\ pc = "call"
    /\ attempt = MAX_RETRIES - 1
    /\ last_done.status = "Failed"
    /\ last_done.n + 1 = BatchNum(i)
    /\ Len(run_batches) = 2

\* the error records of the outcome of the batch finalized last
FinalizedErrors ==
    IF last_done.status = "Failed"
    THEN FailureEntries(last_done.batch)
    ELSE SelectSeq(entries, IsError)

\* C18: after any sequence of attempts, crashes and resumes, when batch n
\* has been finalized its error artifact exists if and only if the
\* finalized outcome has at least one error record, and it then holds
\* exactly the error records of that outcome.
C18_ErrorArtifactMatchesOutcome ==
    (JustFinalized("Succeeded") \/ JustFinalized("Failed")) =>
        /\ (last_done.n \in DOMAIN error_files) <=> (FinalizedErrors # <<>>)
        /\ last_done.n \in DOMAIN error_files =>
              error_files[last_done.n] = Written(FinalizedErrors)

(***************************************************************************)
(* Termination of a run.                                                   *)
(***************************************************************************)
RunEnded == pc \in {"done", "aborted"}

\* every batch at or after the offset the run started from has an outcome
AllReached ==
    \A n \in 1..NumBatches :
        (n - 1) * BATCH_SIZE >= start_index =>
            /\ n \in DOMAIN outcome
            /\ outcome[n] \in {"Skipped", "Succeeded", "Failed"}

\* the steps left inside the iteration of the loop, by position
Rank ==
    CASE pc = "loop" -> 19
      [] pc = "call" -> 18 - attempt
      [] pc = "parse" -> 15
      [] pc = "save_results" -> 14
      [] pc = "write_results" -> 13
      [] pc = "save_errors" -> 12
      [] pc = "write_errors" -> 11
      [] pc = "update_progress" -> 10
      [] pc = "failed" -> 9
      [] pc = "x_save_errors" -> 8
      [] pc = "x_write_errors" -> 7
      [] pc = "x_update_progress" -> 6
      [] pc = "save_progress" -> 5
      [] pc = "write_progress" -> 4
      [] pc = "after_loop" -> 1
      [] OTHER -> 0

\* the batches the loop has not come to yet
Remaining == IF i \div BATCH_SIZE >= NumBatches THEN 0 ELSE NumBatches - (i \div BATCH_SIZE)

\* a bound on the number of steps the run has left
Measure == IF Running THEN 20 * Remaining + Rank ELSE 0

\* C19: for every word list and every pattern of returning and raising
\* calls a run ends: every step of a run lowers a measure that is never
\* negative and is at most 20 per batch left plus 19, and a running
\* process is at a position that has a next step.  No batch is attempted
\* more than MAX_RETRIES times or submitted twice, a Failed batch is
\* followed by the next offset, and when the run has ended every batch
\* from the starting last_index onward has reached one of Skipped,
\* Succeeded and Failed.
C19_ForwardProgress ==
    /\ [][(Running /\ pc' # "idle") => Measure' < Measure]_vars
    /\ [](Measure >= 0 /\ Measure <= 20 * NumBatches + 19)
    /\ [](Running => (InFlight \/ pc \in {"loop", "after_loop"}))
    /\ [](attempt <= MAX_RETRIES)
    /\ [](NoDuplicates(run_batches))
    /\ [](JustFinalized("Failed") => i = last_done.i + BATCH_SIZE)
    /\ [](RunEnded => AllReached)

\* C19 witness: a run has ended whose first batch Failed on every attempt
\* and whose second batch Succeeded.
C19_Witness ==
    /\ RunEnded
    /\ NumBatches = 2
    /\ DOMAIN outcome = {1, 2}
    /\ outcome[1] = "Failed"
    /\ outcome[2] = "Succeeded"

\* every completed batch of the progress ends at or before its last_index
Bounded(p) ==
    \A k \in 1..Len(p.batches) : p.batches[k] * BATCH_SIZE <= p.last_index

\* C20: with a progress that is the default or was persisted by the
\* program with the same BATCH_SIZE, every completed batch number n has
\* n * BATCH_SIZE <= last_index, so no batch the loop visits (start offset
\* >= last_index) is among the completed batches: no batch is ever
\* Skipped, and last_index has reached the number of words when the loop
\* has ended.
C20_SkipNeverTaken ==
    /\ progress_file.state = "ok" => Bounded(progress_file.data)
    /\ Bounded(progress)
    /\ \A n \in processed_batches : n * BATCH_SIZE <= start_index
    /\ Running => i >= start_index
    /\ (pc = "loop" \/ InFlight) => BatchNum(i) \notin processed_batches
    /\ \A n \in DOMAIN outcome : outcome[n] # "Skipped"
    /\ pc \in {"after_loop", "done", "aborted"} =>
          /\ progress.last_index >= Len(words)
          /\ progress.last_index = NumBatches * BATCH_SIZE

\* C20 witness: a run resumed from a persisted progress with a completed
\* batch has gone through the rest of the word list to the end of its
\* loop.
C20_Witness ==
    /\ pc = "after_loop"
    /\ run_start.state = "ok"
    /\ run_start.data.batches = <<1>>
    /\ processed_batches = {1}
    /\ DOMAIN outcome = {2}
    /\ progress.last_index >= Len(words)

====
